---- MODULE Spec2Model ----
(***************************************************************************)
(* BinanceFuturesClient (futures.py): the REST gateway, the price cache,   *)
(* the streaming thread started by the constructor (start_ws and the       *)
(* on_message callback) and a foreground caller of the client's methods.   *)
(* Prices are integers; a dict is a function whose DOMAIN is its key set.  *)
(***************************************************************************)
EXTENDS Integers, Sequences, FiniteSets, TLC

VARIABLES
    prices,      \* self.prices: symbol -> [bid, ask]
    contracts,   \* self.contracts: [tag |-> "None"] or [tag |-> "dict", symbols]
    balances,    \* self.balances: asset -> wallet balance
    strategies,  \* self.strategies in insertion order: Seq of [key, symbol, trades]
    received,    \* per registry position: the trade timestamps handed to parse_trade
    checked,     \* per registry position: the trade timestamps handed to check_trade
    reconnect,   \* self.reconnect
    clearedAt,   \* position of start_ws when the flag was cleared ("never" before)
    wsId,        \* self._ws_id
    subs,        \* the subscribe requests built so far: Seq of [id, sent]
    wsPc,        \* position of the streaming thread in start_ws
    conn,        \* state of the connection inside run_forever
    lastEnd,     \* how the last finished connection run ended ("none" before)
    mpc,         \* position inside on_message ("idle" between messages)
    msg,         \* the message on_message is processing
    it,          \* index of the next item of self.strategies.items()
    itLen,       \* len(self.strategies) when the iteration in progress began
    msgCount,    \* messages received so far
    done,        \* the last finished on_message call: [msg, outcome], with the
                 \* message finished before it and the registry as the call left it
    fgPc,        \* position of the foreground caller
    call,        \* the foreground call in progress or last made
    ret          \* what that call returned or raised

vars == <<prices, contracts, balances, strategies, received, checked, reconnect,
          clearedAt, wsId, subs, wsPc, conn, lastEnd, mpc, msg, it, itLen, msgCount,
          done, fgPc, call, ret>>

cacheVars == <<prices>>
acctVars == <<contracts, balances>>
stratVars == <<strategies, received, checked>>
flagVars == <<reconnect, clearedAt>>
subVars == <<wsId, subs>>
loopVars == <<wsPc, conn, lastEnd>>
msgVars == <<mpc, msg, it, itLen, msgCount, done>>
fgVars == <<fgPc, call, ret>>

(***************************************************************************)
(* Bounds of the model.                                                    *)
(***************************************************************************)
MaxStrats == 2
MaxMsgs == 3
MaxCalls == 2
MaxSubs == 3

\* The slots of the strategies dict, used or left by a removal.
MaxSlots == 2

(***************************************************************************)
(* Data.                                                                   *)
(***************************************************************************)
Symbols == {"BTCUSDT", "ETHUSDT"}

\* The literal key the PnL pass indexes the cache with (lines 305, 307).
LiteralKey == "symbol"

\* The (bid, ask) pairs an update can carry: no two share a bid or an ask, so
\* the pair seen tells which update each field came from.
Quotes == {[bid |-> 105, ask |-> 106], [bid |-> 94, ask |-> 95]}

NoMsg == [e |-> "none"]

BookTickers == {[e |-> "bookTicker", s |-> s, b |-> q.bid, a |-> q.ask] :
                    s \in Symbols, q \in Quotes}

\* A bookTicker whose symbol is the text "symbol": the one key under which
\* lines 305 and 307 find a quote.
LiteralTickers == {[e |-> "bookTicker", s |-> LiteralKey, b |-> q.bid, a |-> q.ask] :
                      q \in Quotes}

AggTrades(T) == {[e |-> "aggTrade", s |-> s, p |-> 100, q |-> 1, T |-> T] : s \in Symbols}

Trade(side, status, hasEntry) ==
    [side |-> side, status |-> status, hasEntry |-> hasEntry,
     entry_price |-> 100, quantity |-> 2, pnl |-> 0]

TradeLists ==
    { <<Trade("long", "open", TRUE)>>,
      <<Trade("short", "open", TRUE)>>,
      <<Trade("long", "closed", TRUE), Trade("short", "open", FALSE)>> }

StrategySet == [symbol : Symbols, trades : TradeLists]

Registries == UNION {[1..n -> StrategySet] : n \in 1..MaxStrats}


(***************************************************************************)
(* RestGateway: make_request.                                              *)
(***************************************************************************)
\* What the HTTP library does with one request: the transport fails, or a
\* response arrives with a status and a body that decodes as JSON or does not
\* (an error page of a proxy in front of the exchange).
Responses ==
    { [kind |-> "transport", status |-> 0, json |-> FALSE],
      [kind |-> "http", status |-> 200, json |-> TRUE],
      [kind |-> "http", status |-> 400, json |-> TRUE],
      [kind |-> "http", status |-> 502, json |-> FALSE] }

Methods == {"GET", "POST", "DELETE"}

RetNone == [tag |-> "None"]
Raise(exc) == [tag |-> "raise", exc |-> exc]

\* response.json(): the decoded body, or the decoder's error.
ResponseJson(resp, value) ==
    IF resp.json THEN [tag |-> "json", value |-> value] ELSE Raise("JSONDecodeError")

\* make_request(method, endpoint, data): value is what the body decodes to.
make_request(method, resp, value) ==
    IF method \notin Methods THEN Raise("ValueError")
    ELSE IF resp.kind = "transport" THEN RetNone
    ELSE IF resp.status = 200 THEN ResponseJson(resp, value)
    ELSE \* logger.error(..., response.json(), response.status_code)
         IF ResponseJson(resp, value).tag = "raise" THEN ResponseJson(resp, value)
         ELSE RetNone

(***************************************************************************)
(* The price cache: the writes of get_bid_ask and of on_message.           *)
(***************************************************************************)
\* An insert that starts the dict afresh.
InsertQuoteResets(p, s, b, a) == [k \in {s} |-> [bid |-> b, ask |-> a]]

\* self.prices[symbol] = {'bid': b, 'ask': a}
InsertQuote(p, s, b, a) ==
    [k \in DOMAIN p \cup {s} |-> IF k = s THEN [bid |-> b, ask |-> a] ELSE p[k]]

\* self.prices[symbol]['bid'] = b
SetBid(p, s, b) == [p EXCEPT ![s].bid = b]

\* self.prices[symbol]['ask'] = a
SetAsk(p, s, a) == [p EXCEPT ![s].ask = a]

(***************************************************************************)
(* on_message: the PnL pass of a bookTicker event.                         *)
(***************************************************************************)
\* The loop body adding to the pnl the trade has.
PnlTradeAccumulates(p, trade) ==
    IF trade.status = "open" /\ trade.hasEntry /\ trade.side \in {"long", "short"}
    THEN IF LiteralKey \in DOMAIN p
         THEN [raised |-> FALSE,
               trade |-> [trade EXCEPT !.pnl = @ +
                            IF trade.side = "long"
                            THEN (p[LiteralKey].bid - trade.entry_price) * trade.quantity
                            ELSE (trade.entry_price - p[LiteralKey].ask) * trade.quantity]]
         ELSE [raised |-> TRUE, trade |-> trade]
    ELSE [raised |-> FALSE, trade |-> trade]

\* The body of the loop over strat.trades for one trade: the trade after it,
\* or the KeyError of self.prices['symbol'].
PnlTrade(p, trade) ==
    IF trade.status = "open" /\ trade.hasEntry
    THEN IF trade.side = "long"
         THEN IF LiteralKey \in DOMAIN p
              THEN [raised |-> FALSE,
                    trade |-> [trade EXCEPT !.pnl =
                                 (p[LiteralKey].bid - trade.entry_price) * trade.quantity]]
              ELSE [raised |-> TRUE, trade |-> trade]
         ELSE IF trade.side = "short"
         THEN IF LiteralKey \in DOMAIN p
              THEN [raised |-> FALSE,
                    trade |-> [trade EXCEPT !.pnl =
                                 (trade.entry_price - p[LiteralKey].ask) * trade.quantity]]
              ELSE [raised |-> TRUE, trade |-> trade]
         ELSE [raised |-> FALSE, trade |-> trade]
    ELSE [raised |-> FALSE, trade |-> trade]

\* for trade in strat.trades, from the i-th trade on: the loop stops at the
\* first trade that raises.
RECURSIVE PnlTrades(_, _, _)
PnlTrades(p, trades, i) ==
    IF i > Len(trades) THEN [raised |-> FALSE, trades |-> trades]
    ELSE LET r == PnlTrade(p, trades[i])
         IN  IF r.raised THEN [raised |-> TRUE, trades |-> trades]
             ELSE PnlTrades(p, [trades EXCEPT ![i] = r.trade], i + 1)


(***************************************************************************)
(* on_message, a step at a time: the streaming thread can be preempted     *)
(* between any two of these steps. A decoded message is a record whose     *)
(* DOMAIN is the key set of the JSON object.                               *)
(***************************************************************************)
\* Text that json.loads does not decode.
NotJson == [text |-> "not json"]

\* Messages that are no complete bookTicker or aggTrade event: undecodable
\* text, an object without "e" (the answer to a subscribe request), an
\* unknown event type, and events that lack payload fields.
Malformed ==
    { NotJson, [id |-> 1], [e |-> "kline"], [e |-> "bookTicker"], [e |-> "aggTrade"] }
    \cup {[e |-> "bookTicker", s |-> s, b |-> q.bid] : s \in Symbols, q \in Quotes}
    \cup {[e |-> "bookTicker", s |-> s, a |-> q.ask] : s \in Symbols, q \in Quotes}
    \cup {[e |-> "aggTrade", s |-> s] : s \in Symbols}

\* The number of items of the dict: removed entries leave an empty slot.
Tombstone == [symbol |-> "", trades |-> <<>>]
Used(reg) == Cardinality({i \in 1..Len(reg) : reg[i] # Tombstone})

\* on_message processing m returns, or an exception leaves it.
FinishOf(m, outcome) ==
    /\ mpc' = "idle"
    /\ msg' = NoMsg
    /\ it' = 1
    /\ done' = [msg |-> m, outcome |-> outcome, prev |-> done.msg,
                strategies |-> strategies']

Finish(outcome) == FinishOf(msg, outcome)

\* Lines 285-296 and 311-313 on message m with cache p: the cache after
\* them and where on_message stands, or the exception raised.
MsgHead(p, m) ==
    IF "text" \in DOMAIN m
    THEN [prices |-> p, mpc |-> "idle", outcome |-> "JSONDecodeError"]
    ELSE IF "e" \notin DOMAIN m
    THEN [prices |-> p, mpc |-> "idle", outcome |-> "returned"]
    ELSE IF m.e = "bookTicker"
    THEN IF "s" \notin DOMAIN m
         THEN [prices |-> p, mpc |-> "idle", outcome |-> "KeyError"]
         ELSE IF m.s \notin DOMAIN p
         THEN IF {"b", "a"} \subseteq DOMAIN m
              THEN [prices |-> InsertQuote(p, m.s, m.b, m.a), mpc |-> "pnl",
                    outcome |-> "none"]
              ELSE [prices |-> p, mpc |-> "idle", outcome |-> "KeyError"]
         ELSE IF "b" \in DOMAIN m
              THEN [prices |-> SetBid(p, m.s, m.b), mpc |-> "ask", outcome |-> "none"]
              ELSE [prices |-> p, mpc |-> "idle", outcome |-> "KeyError"]
    ELSE IF m.e = "aggTrade"
    THEN IF "s" \notin DOMAIN m
         THEN [prices |-> p, mpc |-> "idle", outcome |-> "KeyError"]
         ELSE [prices |-> p, mpc |-> "agg", outcome |-> "none"]
    ELSE [prices |-> p, mpc |-> "idle", outcome |-> "returned"]

\* on_message is called with message m.
Receive(m) ==
    /\ wsPc = "running" /\ conn = "open" /\ mpc = "idle"
    /\ msgCount < MaxMsgs
    /\ UNCHANGED <<acctVars, stratVars, flagVars, subVars, loopVars, fgVars>>
    /\ msgCount' = msgCount + 1
    /\ prices' = MsgHead(prices, m).prices
    /\ IF MsgHead(prices, m).mpc = "idle"
       THEN FinishOf(m, MsgHead(prices, m).outcome) /\ itLen' = itLen
       ELSE /\ mpc' = MsgHead(prices, m).mpc
            /\ msg' = m
            /\ it' = 1
            /\ itLen' = Used(strategies)
            /\ done' = done

OnBookTicker == \E m \in BookTickers : Receive(m)

OnAggTrade == \E m \in AggTrades(msgCount + 1) : Receive(m)

OnMalformed == \E m \in Malformed : Receive(m)

OnLiteralTicker == \E m \in LiteralTickers : Receive(m)

\* Line 296.
OnMessageAsk ==
    /\ mpc = "ask"
    /\ UNCHANGED <<acctVars, stratVars, flagVars, subVars, loopVars,
                   itLen, msgCount, fgVars>>
    /\ IF "a" \in DOMAIN msg
       THEN /\ prices' = SetAsk(prices, msg.s, msg.a)
            /\ mpc' = "pnl"
            /\ UNCHANGED <<msg, it, done>>
       ELSE Finish("KeyError") /\ prices' = prices

\* Lines 299-309 for the next item of self.strategies. The iterator raises
\* RuntimeError when the dict has changed size, which line 308 catches: the
\* pass ends there. A KeyError is no RuntimeError and leaves on_message.
OnMessagePnl ==
    /\ mpc = "pnl"
    /\ IF Used(strategies) # itLen
       THEN UNCHANGED strategies /\ Finish("RuntimeError caught")
       ELSE IF it > Len(strategies)
       THEN UNCHANGED strategies /\ Finish("returned")
       ELSE IF strategies[it].symbol = msg.s
            THEN LET r == PnlTrades(prices, strategies[it].trades, 1)
                 IN  /\ strategies' = [strategies EXCEPT ![it].trades = r.trades]
                     /\ IF r.raised
                        THEN Finish("KeyError")
                        ELSE it' = it + 1 /\ UNCHANGED <<mpc, msg, done>>
            ELSE it' = it + 1 /\ UNCHANGED <<strategies, mpc, msg, done>>
    /\ UNCHANGED <<cacheVars, acctVars, received, checked, flagVars, subVars, loopVars,
                   itLen, msgCount, fgVars>>

\* What a strategy's parse_trade and check_trade may do with a trade.
CallbackOutcomes == {"ok", "parse_trade raises", "check_trade raises"}

\* Lines 315-320 for the next item of self.strategies: no try around the
\* iteration, the payload lookups and the callbacks.
OnMessageAgg ==
    /\ mpc = "agg"
    /\ UNCHANGED <<cacheVars, acctVars, strategies, flagVars, subVars, loopVars,
                   itLen, msgCount, fgVars>>
    /\ IF Used(strategies) # itLen
       THEN Finish("RuntimeError") /\ UNCHANGED <<received, checked>>
       ELSE IF it > Len(strategies)
       THEN Finish("returned") /\ UNCHANGED <<received, checked>>
       ELSE IF strategies[it].symbol = msg.s
            THEN IF {"p", "q", "T"} \subseteq DOMAIN msg
                 THEN \E o \in CallbackOutcomes :
                         /\ received' = [received EXCEPT ![it] = Append(@, msg.T)]
                         /\ checked' = IF o = "parse_trade raises" THEN checked
                                       ELSE [checked EXCEPT ![it] = Append(@, msg.T)]
                         /\ IF o = "ok"
                            THEN it' = it + 1 /\ UNCHANGED <<mpc, msg, done>>
                            ELSE Finish(o)
                 ELSE Finish("KeyError") /\ UNCHANGED <<received, checked>>
            ELSE it' = it + 1 /\ UNCHANGED <<received, checked, mpc, msg, done>>

(***************************************************************************)
(* The foreground caller: get_bid_ask, a step at a time.                   *)
(***************************************************************************)
NoSignature == [key |-> "-", over |-> <<>>]

NoCall == [op |-> "none", n |-> 0, symbol |-> "-", args |-> <<>>,
           method |-> "-", data |-> <<>>, signature |-> NoSignature,
           resp |-> [kind |-> "none", status |-> 0, json |-> FALSE], ob |-> RetNone]

\* The record of one call: its operation, its contract's symbol, its other
\* arguments where the model reads them, the HTTP method and the keys of the
\* parameter dict handed to make_request in insertion order, the response
\* and what make_request made of it.
Call(op, s, method, data, resp, ob) ==
    [op |-> op, n |-> call.n + 1, symbol |-> s, args |-> <<>>,
     method |-> method, data |-> data, signature |-> NoSignature,
     resp |-> resp, ob |-> ob]

\* Lines 73-74: the HMAC-SHA256 of the URL-encoded parameters under the
\* secret key, kept as the term of what it was computed over.
generate_signature(data) == [key |-> "secret_key", over |-> data]

\* Signing before the timestamp is put into the parameters.
SignedCallEarly(op, s, method, data, resp, ob) ==
    [Call(op, s, method, Append(data, "signature"), resp, ob)
        EXCEPT !.signature = generate_signature(SubSeq(data, 1, Len(data) - 1))]

\* data['signature'] = self.generate_signature(data), then make_request with
\* data: the call of an operation that signs its parameters.
SignedCall(op, s, method, data, resp, ob) ==
    [Call(op, s, method, Append(data, "signature"), resp, ob)
        EXCEPT !.signature = generate_signature(data)]

Pending == [tag |-> "pending"]

\* The snapshot write with a failed call invalidating the cached quote.
SnapshotWriteDropsStale(p, s, ob) ==
    IF ob.tag = "json"
    THEN IF s \notin DOMAIN p
         THEN InsertQuote(p, s, ob.value.bid, ob.value.ask)
         ELSE SetBid(p, s, ob.value.bid)
    ELSE [k \in DOMAIN p \ {s} |-> p[k]]

\* Lines 153-157: the cache after the insert or the bid write, which happen
\* only when make_request returned a value.
SnapshotWrite(p, s, ob) ==
    IF ob.tag = "json"
    THEN IF s \notin DOMAIN p
         THEN InsertQuote(p, s, ob.value.bid, ob.value.ask)
         ELSE SetBid(p, s, ob.value.bid)
    ELSE p

\* Lines 144-157.
GetBidAsk ==
    /\ fgPc = "idle"
    /\ call.n < MaxCalls
    /\ \E s \in Symbols, resp \in Responses, q \in Quotes :
          LET ob == make_request("GET", resp, q)
          IN  /\ call' = Call("get_bid_ask", s, "GET", <<"symbol">>, resp, ob)
              /\ prices' = SnapshotWrite(prices, s, ob)
              /\ IF ob.tag = "raise"
                 THEN fgPc' = "idle" /\ ret' = ob
                 ELSE /\ ret' = Pending
                      /\ fgPc' = IF ob.tag = "json" /\ s \in DOMAIN prices
                                 THEN "gba_ask" ELSE "gba_ret"
    /\ UNCHANGED <<acctVars, stratVars, flagVars, subVars, loopVars, msgVars>>

\* Line 158.
GetBidAskAsk ==
    /\ fgPc = "gba_ask"
    /\ prices' = SetAsk(prices, call.symbol, call.ob.value.ask)
    /\ fgPc' = "gba_ret"
    /\ UNCHANGED <<acctVars, stratVars, flagVars, subVars, loopVars, msgVars, call, ret>>

\* Line 160: return self.prices[contract.symbol].
GetBidAskReturn ==
    /\ fgPc = "gba_ret"
    /\ ret' = IF call.symbol \in DOMAIN prices
              THEN [tag |-> "quote", bid |-> prices[call.symbol].bid,
                    ask |-> prices[call.symbol].ask]
              ELSE Raise("KeyError")
    /\ fgPc' = "idle"
    /\ UNCHANGED <<cacheVars, acctVars, stratVars, flagVars, subVars, loopVars,
                   msgVars, call>>

(***************************************************************************)
(* The state after construction.                                           *)
(***************************************************************************)
\* The account snapshots get_balances can decode: asset -> wallet balance.
BalanceSnapshots ==
    {[a \in {"USDT", "BTC"} |-> 1000], [a \in {"BTC"} |-> 1000], [a \in {"USDT"} |-> 500]}

ContractSets == {[tag |-> "None"], [tag |-> "dict", symbols |-> Symbols]}

\* __init__, lines 50-62: no quote cached, no strategy registered.
InitClient ==
    /\ prices = [k \in {} |-> 0]
    /\ reconnect = TRUE
    /\ clearedAt = "never"
    /\ wsId = 1
    /\ subs = <<>>
    /\ mpc = "idle"
    /\ msg = NoMsg
    /\ it = 1
    /\ msgCount = 0
    /\ itLen = 0
    /\ done = [msg |-> NoMsg, outcome |-> "none", prev |-> NoMsg, strategies |-> <<>>]
    /\ fgPc = "idle"
    /\ call = NoCall
    /\ ret = RetNone

(***************************************************************************)
(* start_ws: the reconnect loop of the streaming thread.                   *)
(***************************************************************************)
\* Line 260: self.ws = websocket.WebSocketApp(...).
StartWs ==
    /\ wsPc = "init"
    /\ wsPc' = "check"
    /\ UNCHANGED <<cacheVars, acctVars, stratVars, flagVars, subVars, conn, lastEnd,
                   msgVars, fgVars>>

\* The loop without its test of the flag: run_forever is called again
\* whatever self.reconnect says.
LoopCheckIgnoresFlag ==
    /\ wsPc = "check"
    /\ wsPc' = "running" /\ conn' = "connecting"
    /\ UNCHANGED <<cacheVars, acctVars, stratVars, flagVars, subVars, lastEnd,
                   msgVars, fgVars>>

\* Lines 265-269: if self.reconnect: self.ws.run_forever() else: break.
LoopCheck ==
    /\ wsPc = "check"
    /\ IF reconnect
       THEN wsPc' = "running" /\ conn' = "connecting"
       ELSE wsPc' = "done" /\ conn' = conn
    /\ UNCHANGED <<cacheVars, acctVars, stratVars, flagVars, subVars, lastEnd,
                   msgVars, fgVars>>

\* on_open sending again the subscriptions whose send had failed.
OnOpenResends ==
    /\ wsPc = "running" /\ conn = "connecting"
    /\ conn' = "open"
    /\ subs' = [i \in 1..Len(subs) |-> [subs[i] EXCEPT !.sent = TRUE]]
    /\ UNCHANGED <<cacheVars, acctVars, stratVars, flagVars, wsId, wsPc, lastEnd,
                   msgVars, fgVars>>

\* run_forever connects and calls on_open (line 274).
OnOpen ==
    /\ wsPc = "running" /\ conn = "connecting"
    /\ conn' = "open"
    /\ UNCHANGED <<cacheVars, acctVars, stratVars, flagVars, subVars, wsPc, lastEnd,
                   msgVars, fgVars>>

\* The ways a connection run ends: a transport error (on_error, line 281), a
\* close by the remote end (on_close, line 278), an exception that leaves
\* run_forever (line 270).
RunEnds == {"error", "closed", "raised"}

\* The loop without its except clause: an exception that leaves run_forever
\* ends the thread.
RunEndUncaught ==
    /\ wsPc = "running" /\ mpc = "idle"
    /\ \E why \in RunEnds :
          /\ why = "closed" => conn = "open"
          /\ conn' = why
          /\ lastEnd' = why
          /\ wsPc' = IF why = "raised" THEN "done" ELSE "sleep"
    /\ UNCHANGED <<cacheVars, acctVars, stratVars, flagVars, subVars, msgVars, fgVars>>

\* run_forever returns or raises: control reaches time.sleep(2), line 272.
RunEnd ==
    /\ wsPc = "running" /\ mpc = "idle"
    /\ \E why \in RunEnds :
          /\ why = "closed" => conn = "open"
          /\ conn' = why
          /\ lastEnd' = why
    /\ wsPc' = "sleep"
    /\ UNCHANGED <<cacheVars, acctVars, stratVars, flagVars, subVars, msgVars, fgVars>>

\* Line 272: time.sleep(2) returns and the loop comes back to line 265.
Backoff ==
    /\ wsPc = "sleep"
    /\ wsPc' = "check"
    /\ UNCHANGED <<cacheVars, acctVars, stratVars, flagVars, subVars, conn, lastEnd,
                   msgVars, fgVars>>

\* A caller clears the flag of line 62: client.reconnect = False.
ClearReconnect ==
    /\ reconnect
    /\ reconnect' = FALSE
    /\ clearedAt' = wsPc
    /\ UNCHANGED <<cacheVars, acctVars, stratVars, subVars, loopVars, msgVars, fgVars>>

(***************************************************************************)
(* subscribe_channel.                                                      *)
(***************************************************************************)
\* contract.symbol.lower()
Lower(s) == IF s = "BTCUSDT" THEN "btcusdt" ELSE IF s = "ETHUSDT" THEN "ethusdt" ELSE s

\* Lines 325-328: data['params'].
RECURSIVE StreamNames(_, _)
StreamNames(cs, channel) ==
    IF cs = <<>> THEN <<>>
    ELSE <<Lower(Head(cs)) \o "@" \o channel>> \o StreamNames(Tail(cs), channel)

\* The contract lists a caller subscribes.
ContractLists == {<<"BTCUSDT">>, <<"BTCUSDT", "ETHUSDT">>}

\* self.ws.send(...) raises unless self.ws exists and its connection is open.
SendRaises == wsPc = "init" \/ conn # "open"

\* The increment moved into the try block: skipped when the send raises.
NextWsIdOnSuccess(id, raised) == IF raised THEN id ELSE id + 1

\* self._ws_id after the call, line 336.
NextWsId(id, raised) == id + 1

\* Lines 322-336.
SubscribeChannel ==
    /\ fgPc = "idle"
    /\ Len(subs) < MaxSubs
    /\ \E cs \in ContractLists :
          subs' = Append(subs, [method |-> "SUBSCRIBE",
                                params |-> StreamNames(cs, "bookTicker"),
                                id |-> wsId, sent |-> ~SendRaises])
    /\ wsId' = NextWsId(wsId, SendRaises)
    /\ UNCHANGED <<cacheVars, acctVars, stratVars, flagVars, loopVars, msgVars, fgVars>>

(***************************************************************************)
(* The cache: from construction on, the streaming thread connects and      *)
(* bookTicker events arrive while the foreground calls get_bid_ask.        *)
(***************************************************************************)
InitCache ==
    /\ InitClient
    /\ contracts = [tag |-> "dict", symbols |-> Symbols]
    /\ balances = [a \in {"USDT", "BTC"} |-> 1000]
    /\ strategies = <<>>
    /\ received = <<>>
    /\ checked = <<>>
    /\ wsPc = "init"
    /\ conn = "none"
    /\ lastEnd = "none"

NextCache ==
    \/ StartWs
    \/ LoopCheck
    \/ OnOpen
    \/ OnBookTicker
    \/ OnMessageAsk
    \/ OnMessagePnl
    \/ RunEnd
    \/ Backoff
    \/ GetBidAsk
    \/ GetBidAskAsk
    \/ GetBidAskReturn

SpecCache == InitCache /\ [][NextCache]_vars

(***************************************************************************)
(* The dispatch: strategies have been registered, the streaming thread     *)
(* connects and events arrive.                                             *)
(***************************************************************************)
InitDispatch ==
    /\ InitClient
    /\ contracts = [tag |-> "dict", symbols |-> Symbols]
    /\ balances = [a \in {"USDT", "BTC"} |-> 1000]
    /\ strategies \in Registries
    /\ received = [i \in 1..Len(strategies) |-> <<>>]
    /\ checked = [i \in 1..Len(strategies) |-> <<>>]
    /\ wsPc = "init"
    /\ conn = "none"
    /\ lastEnd = "none"

NextDispatch ==
    \/ StartWs
    \/ LoopCheck
    \/ OnOpen
    \/ OnBookTicker
    \/ OnAggTrade
    \/ OnMalformed
    \/ OnMessageAsk
    \/ OnMessagePnl
    \/ OnMessageAgg

SpecDispatch == InitDispatch /\ [][NextDispatch]_vars


(***************************************************************************)
(* The streaming session: the reconnect loop, the flag and the             *)
(* subscriptions, from construction on. The streaming thread keeps         *)
(* running: its own steps are taken once they can be. When a connection    *)
(* run ends is up to the network.                                          *)
(***************************************************************************)
InitWs ==
    /\ InitClient
    /\ contracts = [tag |-> "dict", symbols |-> Symbols]
    /\ balances = [a \in {"USDT", "BTC"} |-> 1000]
    /\ strategies = <<>>
    /\ received = <<>>
    /\ checked = <<>>
    /\ wsPc = "init"
    /\ conn = "none"
    /\ lastEnd = "none"

NextWs ==
    \/ StartWs
    \/ LoopCheck
    \/ OnOpen
    \/ RunEnd
    \/ Backoff
    \/ ClearReconnect
    \/ SubscribeChannel

SpecWs ==
    /\ InitWs
    /\ [][NextWs]_vars
    /\ WF_vars(StartWs)
    /\ WF_vars(LoopCheck)
    /\ WF_vars(Backoff)

(***************************************************************************)
(* The other REST operations: each is one call of make_request and what    *)
(* the method does with its result.                                        *)
(***************************************************************************)
\* The start of every operation: the caller is idle and may call again.
CanCall == fgPc = "idle" /\ call.n < MaxCalls

\* An operation that touches nothing but its own result.
Returns(c, r) ==
    /\ call' = c
    /\ ret' = r
    /\ UNCHANGED <<cacheVars, acctVars, stratVars, flagVars, subVars, loopVars,
                   msgVars, fgPc>>

\* The contracts an exchangeInfo payload lists: symbol and margin asset.
ExchangeInfo ==
    { [symbol |-> "BTCUSDT", marginAsset |-> "USDT"],
      [symbol |-> "ETHUSDT", marginAsset |-> "USDT"],
      [symbol |-> "BTCBUSD", marginAsset |-> "BUSD"] }

\* Lines 106-120.
get_contracts(ob) ==
    IF ob.tag = "json"
    THEN [tag |-> "dict",
          keys |-> {cd.symbol : cd \in {c \in ob.value : c.marginAsset # "BUSD"}}]
    ELSE ob

GetContracts ==
    /\ CanCall
    /\ \E resp \in Responses :
          LET ob == make_request("GET", resp, ExchangeInfo)
          IN  Returns(Call("get_contracts", "-", "GET", <<>>, resp, ob), get_contracts(ob))

\* The klines payloads: the number of raw candles.
RawCandles == {0, 2}

\* Lines 122-142: the list of Candle objects, one per raw candle.
get_historical_candles(ob) ==
    IF ob.tag = "raise" THEN ob
    ELSE [tag |-> "list", len |-> IF ob.tag = "json" THEN ob.value ELSE 0]

GetHistoricalCandles ==
    /\ CanCall
    /\ \E s \in Symbols, resp \in Responses, raw \in RawCandles :
          LET ob == make_request("GET", resp, raw)
          IN  Returns(Call("get_historical_candles", s, "GET",
                           <<"symbol", "interval", "limit">>, resp, ob),
                      get_historical_candles(ob))

\* Lines 162-178: balance_data['assets'] is read whatever make_request
\* returned; subscripting None raises TypeError.
get_balances(ob) ==
    IF ob.tag = "raise" THEN ob
    ELSE IF ob.tag = "None" THEN Raise("TypeError")
    ELSE [tag |-> "dict", keys |-> DOMAIN ob.value, value |-> ob.value]

GetBalances ==
    /\ CanCall
    /\ \E resp \in Responses, snap \in BalanceSnapshots :
          LET ob == make_request("GET", resp, snap)
          IN  Returns(SignedCall("get_balances", "-", "GET", <<"timestamp">>,
                           resp, ob),
                      get_balances(ob))

\* The openOrders payloads: the order ids listed.
OpenOrderLists == {{}, {11, 12}}

\* Lines 239-254: orders is iterated whatever make_request returned;
\* iterating None raises TypeError.
get_open_orders(ob) ==
    IF ob.tag = "raise" THEN ob
    ELSE IF ob.tag = "None" THEN Raise("TypeError")
    ELSE [tag |-> "dict", keys |-> ob.value]

GetOpenOrders ==
    /\ CanCall
    /\ \E resp \in Responses, orders \in OpenOrderLists :
          LET ob == make_request("GET", resp, orders)
          IN  Returns(SignedCall("get_open_orders", "-", "GET", <<"timestamp">>,
                           resp, ob),
                      get_open_orders(ob))

\* Lines 200-203, 218-221, 235-237: OrderStatus(order_status) unless None.
order_status(ob) ==
    IF ob.tag = "json" THEN [tag |-> "OrderStatus", order_id |-> ob.value] ELSE ob

\* Lines 181-192: the keys of data before it is signed, price and timeInForce
\* only when given.
PlaceOrderData(hasPrice, hasTif) ==
    <<"symbol", "side", "quantity", "type">>
        \o (IF hasPrice THEN <<"price">> ELSE <<>>)
        \o (IF hasTif THEN <<"timeInForce">> ELSE <<>>)
        \o <<"timestamp">>

\* Lines 180-203; args tells whether price and tif were given.
PlaceOrder ==
    /\ CanCall
    /\ \E s \in Symbols, resp \in Responses, hasPrice \in BOOLEAN, hasTif \in BOOLEAN :
          LET ob == make_request("POST", resp, 11)
              c == SignedCall("place_order", s, "POST", PlaceOrderData(hasPrice, hasTif),
                              resp, ob)
          IN  Returns([c EXCEPT !.args = [price |-> hasPrice, tif |-> hasTif]],
                      order_status(ob))

\* Lines 205-221.
CancelOrder ==
    /\ CanCall
    /\ \E s \in Symbols, resp \in Responses :
          LET ob == make_request("DELETE", resp, 11)
          IN  Returns(SignedCall("cancel_order", s, "DELETE",
                           <<"symbol", "orderId", "timestamp">>, resp, ob),
                      order_status(ob))

\* Lines 223-237.
GetOrderStatus ==
    /\ CanCall
    /\ \E s \in Symbols, resp \in Responses :
          LET ob == make_request("GET", resp, 11)
          IN  Returns(SignedCall("get_order_status", s, "GET",
                           <<"orderId", "symbol", "timestamp">>, resp, ob),
                      order_status(ob))

\* Rounding that drops the fraction.
RoundDown(n, d) == n \div d

\* round(n / d) for n >= 0 and d > 0: Python rounds a half to the even
\* neighbour.
RoundHalfEven(n, d) ==
    LET q == n \div d
        r == n % d
    IN  IF 2 * r < d THEN q
        ELSE IF 2 * r > d THEN q + 1
        ELSE IF q % 2 = 0 THEN q ELSE q + 1

\* contract.lot_size as 1 / LotDen(symbol).
LotDen(s) == IF s = "BTCUSDT" THEN 1000 ELSE 100

\* Lines 338-360, bal being what get_balances returned or raised: the size is
\* num / den, a multiple of the lot size.
get_trade_size(bal, s, price, balance_pct) ==
    IF bal.tag = "raise" THEN bal
    ELSE IF bal.tag = "None" THEN RetNone
    ELSE IF "USDT" \in bal.keys
         THEN [tag |-> "size",
               num |-> RoundHalfEven(bal.value["USDT"] * balance_pct * LotDen(s),
                                     100 * price),
               den |-> LotDen(s)]
         ELSE RetNone

\* The prices and balance percentages a caller sizes a trade with.
TradePrices == {50, 32, 7}
BalancePcts == {10}

GetTradeSize ==
    /\ CanCall
    /\ \E s \in Symbols, price \in TradePrices, pct \in BalancePcts,
          resp \in Responses, snap \in BalanceSnapshots :
          LET ob == make_request("GET", resp, snap)
              c == SignedCall("get_trade_size", s, "GET", <<"timestamp">>, resp, ob)
          IN  Returns([c EXCEPT !.args = [price |-> price, balance_pct |-> pct]],
                      get_trade_size(get_balances(ob), s, price, pct))

(***************************************************************************)
(* The REST operations, called one after the other from construction on.   *)
(***************************************************************************)
InitRest ==
    /\ InitClient
    /\ contracts \in ContractSets
    /\ balances \in BalanceSnapshots
    /\ strategies = <<>>
    /\ received = <<>>
    /\ checked = <<>>
    /\ wsPc = "init"
    /\ conn = "none"
    /\ lastEnd = "none"

NextRest ==
    \/ GetContracts
    \/ GetHistoricalCandles
    \/ GetBidAsk
    \/ GetBidAskAsk
    \/ GetBidAskReturn
    \/ GetBalances
    \/ GetOpenOrders
    \/ PlaceOrder
    \/ CancelOrder
    \/ GetOrderStatus
    \/ GetTradeSize

SpecRest == InitRest /\ [][NextRest]_vars

(***************************************************************************)
(* The PnL pass: bookTicker events only, the event for the text "symbol"   *)
(* among them, handled one after the other by the streaming thread.        *)
(***************************************************************************)
InitPnl == InitDispatch

NextPnl ==
    \/ StartWs
    \/ LoopCheck
    \/ OnOpen
    \/ OnBookTicker
    \/ OnLiteralTicker
    \/ OnMessageAsk
    \/ OnMessagePnl

SpecPnl == InitPnl /\ [][NextPnl]_vars

(***************************************************************************)
(* The strategy registry changed by a foreground context while the         *)
(* streaming thread dispatches: nothing in on_message holds a lock.        *)
(***************************************************************************)
\* The keys of the dict.
RegistryKeys(reg) == {i \in 1..Len(reg) : reg[i] # Tombstone}

\* The strategies a foreground context registers: one open long trade each.
NewStrategies == {st \in StrategySet : st.trades = <<Trade("long", "open", TRUE)>>}

\* self.strategies[key] = strategy for a new key: the entry goes to the end.
Register ==
    /\ Len(strategies) < MaxSlots
    /\ \E st \in NewStrategies :
          /\ strategies' = Append(strategies, st)
          /\ received' = Append(received, <<>>)
          /\ checked' = Append(checked, <<>>)
    /\ UNCHANGED <<cacheVars, acctVars, flagVars, subVars, loopVars, msgVars, fgVars>>

\* del self.strategies[key]: the entry's slot stays, empty.
Remove ==
    /\ \E i \in RegistryKeys(strategies) :
          strategies' = [strategies EXCEPT ![i] = Tombstone]
    /\ UNCHANGED <<cacheVars, acctVars, received, checked, flagVars, subVars,
                   loopVars, msgVars, fgVars>>

InitRegistry ==
    /\ InitDispatch
    /\ Len(strategies) = 1
    /\ strategies[1] \in NewStrategies

NextRegistry ==
    \/ StartWs
    \/ LoopCheck
    \/ OnOpen
    \/ OnBookTicker
    \/ OnAggTrade
    \/ OnMessageAsk
    \/ OnMessagePnl
    \/ OnMessageAgg
    \/ Register
    \/ Remove

SpecRegistry == InitRegistry /\ [][NextRegistry]_vars

(***************************************************************************)
(* Properties of the cache and of the dispatch.                            *)
(***************************************************************************)
\* C1 (cache atomicity): a quote read from the cache while another context
\* updates it, here the quote get_bid_ask returns, is the (bid, ask) pair of
\* one update, never the bid of one update with the ask of another.
C1_NoTornRead ==
    ret.tag = "quote" => [bid |-> ret.bid, ask |-> ret.ask] \in Quotes

\* The pnl the PnL pass owes a trade for a quote with bid b and ask a.
ExpectedPnl(trade, b, a) ==
    IF trade.side = "long"
    THEN (b - trade.entry_price) * trade.quantity
    ELSE (trade.entry_price - a) * trade.quantity

\* C2 (PnL correctness): once on_message has processed a bookTicker event for
\* symbol S with bid b and ask a, every open trade with an entry price of
\* every strategy on S has pnl (b - entry) * quantity if long and
\* (entry - a) * quantity if short.
C2_PnlCorrect ==
    (mpc = "idle" /\ done.msg \in BookTickers) =>
        \A i \in 1..Len(strategies) :
            strategies[i].symbol = done.msg.s =>
                \A j \in 1..Len(strategies[i].trades) :
                    LET trade == strategies[i].trades[j]
                    IN  (trade.status = "open" /\ trade.hasEntry) =>
                            trade.pnl = ExpectedPnl(trade, done.msg.b, done.msg.a)

\* C3 (dispatch isolation): once on_message has dispatched an aggTrade for
\* symbol S, every registered strategy on S has received that trade, whatever
\* the callbacks of the other strategies did, and no error left on_message.
C3_DispatchIsolation ==
    (mpc = "idle" /\ done.msg \in AggTrades(msgCount)) =>
        /\ done.outcome = "returned"
        /\ \A i \in 1..Len(strategies) :
              strategies[i].symbol = done.msg.s =>
                  \E k \in 1..Len(received[i]) : received[i][k] = done.msg.T


(***************************************************************************)
(* Properties of the streaming session.                                    *)
(***************************************************************************)
\* C4 (reconnect liveness): the loop exits only with the flag cleared; a
\* connection run that has ended is followed by the backoff sleep and then by
\* the test of the flag; and after a run has ended with the flag set, another
\* connection attempt (a call of run_forever) follows unless the flag is
\* cleared first.
C4_ReconnectLiveness ==
    /\ [](wsPc = "done" => ~reconnect)
    /\ [][(wsPc = "running" /\ wsPc' # "running") => wsPc' = "sleep"]_vars
    /\ [][(wsPc = "sleep" /\ wsPc' # "sleep") => wsPc' = "check"]_vars
    /\ (wsPc = "sleep" /\ reconnect) ~> (wsPc = "running" \/ ~reconnect)

\* A run ended on a transport error with the flag set, and the loop is in
\* its next connection attempt.
C4_Witness ==
    lastEnd = "error" /\ reconnect /\ wsPc = "running" /\ conn = "connecting"

\* C5 (graceful shutdown): with the flag cleared no connection attempt
\* starts; clearing the flag leaves the streaming thread and its connection
\* where they are; and once the flag is cleared and no connection run is in
\* progress, the loop terminates.
C5_GracefulShutdown ==
    /\ [][~reconnect => ~(wsPc # "running" /\ wsPc' = "running")]_vars
    /\ [][(reconnect /\ ~reconnect') => (wsPc' = wsPc /\ conn' = conn)]_vars
    /\ (~reconnect /\ wsPc # "running") ~> (wsPc = "done")

\* The flag was cleared during a connection run, the run went on to be
\* opened and to end later, and the loop has terminated.
C5_Witness ==
    clearedAt = "running" /\ lastEnd = "closed" /\ wsPc = "done"

\* C10 (subscription request ids): each subscribe_channel call tags its
\* request with the current _ws_id and leaves _ws_id one higher, whether or
\* not the send raised, so the ids of the requests built are strictly
\* increasing.
C10_SubscribeIds ==
    /\ [][Len(subs') = Len(subs) + 1 =>
            (subs'[Len(subs')].id = wsId /\ wsId' = wsId + 1)]_vars
    /\ [](\A i, j \in 1..Len(subs) : i < j => subs[i].id < subs[j].id)

\* A failed send was followed by another subscribe call.
C10_Witness ==
    /\ Len(subs) >= 2
    /\ \E i \in 1..Len(subs) - 1 : ~subs[i].sent /\ subs[i + 1].sent


(***************************************************************************)
(* Properties of the REST operations.                                      *)
(***************************************************************************)
\* The REST call failed: the transport failed or the status is not 200.
Failed(resp) == resp.kind = "transport" \/ (resp.kind = "http" /\ resp.status # 200)

\* C6 (gateway failure absorption): for GET, POST and DELETE, make_request
\* returns the decoded JSON value when the status is 200 and returns None,
\* raising nothing, when the transport fails or the status is not 200.
C6_GatewayAbsorbs ==
    (call.op # "none" /\ call.method \in Methods) =>
        IF Failed(call.resp) THEN call.ob = RetNone ELSE call.ob.tag = "json"

QueryOps == {"get_balances", "get_open_orders", "get_bid_ask", "get_contracts",
             "get_historical_candles", "get_trade_size"}

\* An absent or empty result.
Absent(r) ==
    \/ r.tag = "None"
    \/ r.tag = "list" /\ r.len = 0
    \/ r.tag = "dict" /\ r.keys = {}

\* C7 (absent-result propagation): when its REST call fails, each query
\* operation completes without raising and yields an absent or empty result;
\* get_trade_size yields None when the snapshot cannot be obtained or holds
\* no USDT. Stated for the failures make_request itself turned into None (a
\* transport failure, an HTTP 400 with a JSON body), which are among the
\* claim's cases.
C7_AbsentResult ==
    (fgPc = "idle" /\ call.op \in QueryOps) =>
        /\ (Failed(call.resp) /\ call.ob = RetNone) => Absent(ret)
        /\ (call.op = "get_trade_size" /\ ~Failed(call.resp)
               /\ "USDT" \notin DOMAIN call.ob.value) => ret = RetNone

OrderOps == {"place_order", "cancel_order", "get_order_status"}

\* key is one of the keys of the parameter dict.
HasKey(data, key) == \E i \in 1..Len(data) : data[i] = key

\* C8 (order operations): place_order, cancel_order and get_order_status
\* return an OrderStatus when the REST call succeeds and None, raising
\* nothing, when it fails; place_order sends price and timeInForce exactly
\* when they were supplied.
C8_OrderOps ==
    call.op \in OrderOps =>
        /\ IF Failed(call.resp) THEN ret = RetNone ELSE ret.tag = "OrderStatus"
        /\ call.op = "place_order" =>
              /\ HasKey(call.data, "price") <=> call.args.price
              /\ HasKey(call.data, "timeInForce") <=> call.args.tif

\* C9 (a failing REST call changes no cached state): every step of an
\* operation whose REST call failed leaves the price cache, the contract
\* set, the balances, the strategy registry and _ws_id as they were.
C9_FailureFrame ==
    [][Failed(call'.resp) =>
          UNCHANGED <<prices, contracts, balances, strategies, wsId>>]_vars

\* get_bid_ask has returned after a failed REST call on a symbol whose quote
\* was cached, and the quote is still there.
C9_Witness ==
    /\ fgPc = "idle" /\ call.op = "get_bid_ask" /\ Failed(call.resp)
    /\ call.symbol \in DOMAIN prices
    /\ ret.tag = "quote"

\* C11: a malformed or unrecognized stream message (undecodable text, no
\* event type, an unknown event type, a known event type without its payload
\* fields) is dropped: on_message returns normally on it, and the price
\* cache and the strategies' trades are as they were before it.
C11_Dropped ==
    /\ (mpc = "idle" /\ done.msg \in Malformed) => done.outcome = "returned"
    /\ (msg \in Malformed) => mpc = "idle"

\* How many times timestamp t stands in the log.
Count(log, t) == Cardinality({k \in 1..Len(log) : log[k] = t})

\* The log holds timestamps in the order the trades arrived on the wire.
InWireOrder(log) == \A j, k \in 1..Len(log) : j < k => log[j] < log[k]

\* C12 (trade delivery): once on_message has dispatched an aggTrade for
\* symbol S, every registered strategy on S has had parse_trade called exactly
\* once with that trade and, unless a callback of its own raised, check_trade
\* exactly once after it; strategies on other symbols got nothing; and every
\* strategy has seen its trades in arrival order.
C12_TradeDelivery ==
    (mpc = "idle" /\ done.msg \in AggTrades(msgCount)) =>
        \A i \in 1..Len(strategies) :
            /\ InWireOrder(received[i]) /\ InWireOrder(checked[i])
            /\ IF strategies[i].symbol = done.msg.s
               THEN /\ Count(received[i], done.msg.T) = 1
                    /\ Count(checked[i], done.msg.T) <= 1
                    /\ done.outcome = "returned" => Count(checked[i], done.msg.T) = 1
               ELSE /\ Count(received[i], done.msg.T) = 0
                    /\ Count(checked[i], done.msg.T) = 0

Abs(x) == IF x < 0 THEN 0 - x ELSE x

\* C13 (trade sizing): with a balance snapshot that holds USDT with wallet
\* balance B, get_trade_size returns the multiple num/den of the lot size
\* 1/den nearest to (B * balance_pct / 100) / price, the even multiple on a
\* tie: a value fixed by B, price, balance_pct and the lot size alone. With
\* B = 1000, balance_pct = 10, price = 50 and lot size 0.01 it is 2.0.
C13_TradeSize ==
    (call.op = "get_trade_size" /\ call.ob.tag = "json"
        /\ "USDT" \in DOMAIN call.ob.value) =>
        LET B == call.ob.value["USDT"]
            N == B * call.args.balance_pct * LotDen(call.symbol)
            D == 100 * call.args.price
        IN  /\ ret.tag = "size"
            /\ ret.den = LotDen(call.symbol)
            /\ 2 * Abs(ret.num * D - N) <= D
            /\ 2 * Abs(ret.num * D - N) = D => ret.num % 2 = 0
            /\ (B = 1000 /\ call.args.balance_pct = 10 /\ call.args.price = 50
                  /\ ret.den = 100) => ret.num = 200

\* A size that had to be rounded: 1000 * 10 / 100 / 32 = 3.125 with lot size
\* 0.01 lies halfway between 3.12 and 3.13.
C13_Witness ==
    /\ call.op = "get_trade_size" /\ call.ob.tag = "json"
    /\ "USDT" \in DOMAIN call.ob.value /\ call.ob.value["USDT"] = 1000
    /\ call.args.price = 32 /\ call.symbol = "ETHUSDT"
    /\ ret = [tag |-> "size", num |-> 312, den |-> 100]

\* C14 (registry mutual exclusion): while on_message iterates the registry no
\* registration or removal takes effect, and no pass ends with the iterator's
\* RuntimeError, escaping on_message or cutting the pass short.
C14_RegistryExclusive ==
    /\ [][(mpc \in {"pnl", "agg"}) =>
              RegistryKeys(strategies') = RegistryKeys(strategies)]_vars
    /\ [](done.outcome \notin {"RuntimeError", "RuntimeError caught"})

\* C16 (cache growth): the cache holds one quote, a bid and an ask, per cached
\* symbol, and no step of the client (bookTicker handling, get_bid_ask, the
\* end of a connection run, the reconnect) takes a symbol out of the cache.
C16_CacheGrows ==
    /\ [](\A s \in DOMAIN prices : DOMAIN prices[s] = {"bid", "ask"})
    /\ [][DOMAIN prices \subseteq DOMAIN prices']_vars

\* Both symbols are cached, one of them before the connection was lost, and
\* the client has reconnected.
C16_Witness ==
    /\ DOMAIN prices = Symbols
    /\ lastEnd # "none" /\ wsPc = "running" /\ conn = "open"
    /\ done.msg \in BookTickers

\* The message a step of on_message works on.
Current == IF msg = NoMsg THEN msg' ELSE msg

\* C17 (PnL frame): a step handling a bookTicker for symbol S changes neither
\* the pnl of a trade that is not open or has no entry price, nor the pnl of a
\* trade of a strategy on another symbol, nor the quote of another symbol; and
\* handling the event that was handled just before leaves every trade as the
\* first handling left it.
C17_PnlFrame ==
    [][(Current \in BookTickers \cup LiteralTickers) =>
          /\ \A i \in 1..Len(strategies) : \A k \in 1..Len(strategies[i].trades) :
                LET trade == strategies[i].trades[k]
                IN  (trade.status # "open" \/ ~trade.hasEntry
                        \/ strategies[i].symbol # Current.s) =>
                        strategies'[i].trades[k].pnl = trade.pnl
          /\ \A s \in DOMAIN prices \ {Current.s} :
                s \in DOMAIN prices' /\ prices'[s] = prices[s]
          /\ (mpc # "idle" /\ mpc' = "idle" /\ msg = done.msg) =>
                strategies' = done.strategies]_vars

\* The same bookTicker has been handled twice in a row, and the pass has
\* written the pnl of an open trade.
C17_Witness ==
    /\ mpc = "idle" /\ done.msg \in BookTickers /\ done.prev = done.msg
    /\ done.outcome = "returned"
    /\ \E i \in 1..Len(strategies) : \E k \in 1..Len(strategies[i].trades) :
          /\ strategies[i].symbol = done.msg.s
          /\ strategies[i].trades[k].pnl # 0
    /\ \E i \in 1..Len(strategies) : \E k \in 1..Len(strategies[i].trades) :
          strategies[i].trades[k].status # "open"

\* C18 (last writer wins on whole quotes): once the writes of a get_bid_ask
\* snapshot and of a bookTicker update have completed, every cached quote is
\* the (bid, ask) pair of one write, never the bid of one write with the ask
\* of another.
C18_WholeQuotes ==
    (fgPc = "idle" /\ mpc = "idle") => \A s \in DOMAIN prices : prices[s] \in Quotes

SignedOps ==
    {"get_balances", "place_order", "cancel_order", "get_order_status",
     "get_open_orders", "get_trade_size"}

UnsignedOps == {"get_contracts", "get_bid_ask", "get_historical_candles"}

\* C19 (signed request composition): an account-scoped operation
\* (get_trade_size among them, through get_balances) sends parameters that
\* hold timestamp and, as the last one, signature, the signature computed
\* under the secret key over all the parameters before it in their insertion
\* order; an unsigned operation sends neither timestamp nor signature.
C19_SignedRequests ==
    /\ call.op \in SignedOps =>
          LET n == Len(call.data)
              others == SubSeq(call.data, 1, n - 1)
          IN  /\ n >= 2 /\ call.data[n] = "signature"
              /\ HasKey(others, "timestamp") /\ ~HasKey(others, "signature")
              /\ call.signature = [key |-> "secret_key", over |-> others]
    /\ call.op \in UnsignedOps =>
          /\ ~HasKey(call.data, "timestamp") /\ ~HasKey(call.data, "signature")
          /\ call.signature = NoSignature

\* place_order has sent a request with price and timeInForce, signed.
C19_Witness ==
    /\ call.op = "place_order" /\ fgPc = "idle"
    /\ call.data = <<"symbol", "side", "quantity", "type", "price", "timeInForce",
                     "timestamp", "signature">>
    /\ call.signature.over = <<"symbol", "side", "quantity", "type", "price",
                               "timeInForce", "timestamp">>

\* C20 (subscribe send failure): a subscribe_channel call makes one request
\* and one send attempt, which fails exactly when the connection object does
\* not exist yet or its connection is not open; the call still runs to its
\* last line, raising nothing; and no later step of the client, a reconnect
\* included, sends a request again or changes what is recorded of it.
C20_NoResend ==
    [][/\ Len(subs') \in {Len(subs), Len(subs) + 1}
       /\ \A i \in 1..Len(subs) : subs'[i] = subs[i]
       /\ Len(subs') = Len(subs) + 1 =>
             /\ subs'[Len(subs')].sent <=> (wsPc # "init" /\ conn = "open")
             /\ wsId' = wsId + 1
             /\ UNCHANGED <<fgPc, ret, wsPc, conn>>]_vars

\* A request whose send failed is still unsent after the connection was lost
\* and opened again.
C20_Witness ==
    /\ \E i \in 1..Len(subs) : ~subs[i].sent
    /\ lastEnd # "none" /\ wsPc = "running" /\ conn = "open"
====
